---- MODULE Spec2Model ----
(***************************************************************************)
(* wiki-to-leveldb.js: a coordinator (cluster master) reads a Wikipedia    *)
(* XML dump, filters pages by namespace, persists redirects directly and   *)
(* sends the other pages round-robin to parsing workers; worker replies    *)
(* are collected into batches of kBatchSize puts that are written to       *)
(* LevelDB, and the input stream is paused / resumed on the difference     *)
(* nRead - nWritten.                                                       *)
(*                                                                         *)
(* Strings are TLA+ strings (ASCII).  The regular expressions of the       *)
(* source are modelled by what they match on ASCII text; the Cyrillic      *)
(* alternative of the namespace lookahead and non-ASCII letters cannot be  *)
(* written in TLA+ strings and are outside the model's alphabet.           *)
(***************************************************************************)
EXTENDS Integers, Sequences, FiniteSets, TLC

(***************************************************************************)
(* Bounds of the model.                                                    *)
(***************************************************************************)
\* pages the input stream holds at most
MaxPages == 3
\* complete <page> elements one delivered chunk holds at most
MaxChunkPages == 2
\* kMaxPagesInFlight is 10000 and kBatchSize is 100 in the source; the model
\* runs the same code for every scaled pair drawn from these ranges
MaxInFlightBound == 2
MaxBatchBound == 2
\* const kWorkerCount = Number(kWorkerCountArg), the workerCount argument
kWorkerCount == 2

Workers == 1..kWorkerCount

(***************************************************************************)
(* Characters and strings.                                                 *)
(***************************************************************************)
LowerLetters == "abcdefghijklmnopqrstuvwxyz"
UpperLetters == "ABCDEFGHIJKLMNOPQRSTUVWXYZ"
Digits == "0123456789"

CharAt(s, i) == SubSeq(s, i, i)

CharsOf(s) == {CharAt(s, i) : i \in 1..Len(s)}

IndexOf(c, alphabet) ==
  IF \E i \in 1..Len(alphabet) : CharAt(alphabet, i) = c
  THEN CHOOSE i \in 1..Len(alphabet) : CharAt(alphabet, i) = c
  ELSE 0

\* String.prototype.toUpperCase on one ASCII character
toUpperCase(c) ==
  LET i == IndexOf(c, LowerLetters)
  IN  IF i > 0 THEN CharAt(UpperLetters, i) ELSE c

\* String.prototype.toLowerCase on one ASCII character
toLowerCase(c) ==
  LET i == IndexOf(c, UpperLetters)
  IN  IF i > 0 THEN CharAt(LowerLetters, i) ELSE c

RECURSIVE LowerCaseString(_)
LowerCaseString(s) ==
  IF s = "" THEN ""
  ELSE toLowerCase(CharAt(s, 1)) \o LowerCaseString(SubSeq(s, 2, Len(s)))

\* \p{L} restricted to ASCII
IsLetter(c) == c \in CharsOf(LowerLetters) \cup CharsOf(UpperLetters)

\* \w
IsWordChar(c) == IsLetter(c) \/ c \in CharsOf(Digits) \/ c = "_"

\* \s restricted to the whitespace a TLA+ string can hold
IsWhiteSpace(c) == c \in {" ", "\t", "\n", "\r"}

\* the characters "." does not match
IsLineTerminator(c) == c \in {"\n", "\r"}

\* String.prototype.trim
trim(s) ==
  LET keep == {i \in 1..Len(s) : ~IsWhiteSpace(CharAt(s, i))}
  IN  IF keep = {} THEN ""
      ELSE LET first == CHOOSE i \in keep : \A j \in keep : i <= j
               last == CHOOSE i \in keep : \A j \in keep : j <= i
           IN  SubSeq(s, first, last)

\* case-insensitive test that s has prefix p at position i (p in lower case)
HasPrefixAtCI(s, i, p) ==
  /\ i + Len(p) - 1 <= Len(s)
  /\ LowerCaseString(SubSeq(s, i, i + Len(p) - 1)) = p

\* variant: the string is returned as it is
capitalizeFirst_Identity(string) == string

capitalizeFirst(string) ==
  IF string # "" THEN toUpperCase(CharAt(string, 1)) \o SubSeq(string, 2, Len(string))
  ELSE ""

\* variant: the pattern excludes exactly the titles under "Category:"
NamespaceRegExpTest_CategoryOnly(title) == HasPrefixAtCI(title, 1, "category:")

\* variant: \d in place of \w after the colon
NamespaceRegExpTest_DigitAfterColon(title) ==
  /\ ~HasPrefixAtCI(title, 1, "category:")
  /\ \E n \in 1..Len(title) :
       /\ \A i \in 1..n : IsLetter(CharAt(title, i))
       /\ n + 2 <= Len(title)
       /\ CharAt(title, n + 1) = ":"
       /\ CharAt(title, n + 2) \in CharsOf(Digits)

\* /^(?!(Category|...):)\p{L}+:\w/ui.test(title)
\* the lookahead rejects a title that starts with "category:" in any case;
\* otherwise one or more letters, a colon and a word character must follow
NamespaceRegExpTest(title) ==
  /\ ~HasPrefixAtCI(title, 1, "category:")
  /\ \E n \in 1..Len(title) :
       /\ \A i \in 1..n : IsLetter(CharAt(title, i))
       /\ n + 2 <= Len(title)
       /\ CharAt(title, n + 1) = ":"
       /\ IsWordChar(CharAt(title, n + 2))

\* source.match(/^#redirect:?\s*\[\[(.+)\]\]/i): the result is null
\* (matched = FALSE) or has the capture group 1 as target.  (.+) is greedy
\* and does not cross a line terminator, so the capture ends before the last
\* "]]" of the first line.
RedirectMatch(source) ==
  LET afterWord == 10
      afterColon == IF afterWord <= Len(source) /\ CharAt(source, afterWord) = ":"
                    THEN afterWord + 1 ELSE afterWord
      nonSpace == {i \in afterColon..Len(source) : ~IsWhiteSpace(CharAt(source, i))}
      open == IF nonSpace = {} THEN Len(source) + 1
              ELSE CHOOSE i \in nonSpace : \A j \in nonSpace : i <= j
      ends == {e \in (open + 3)..(Len(source) - 1) :
                 /\ SubSeq(source, e, e + 1) = "]]"
                 /\ \A i \in (open + 2)..(e - 1) : ~IsLineTerminator(CharAt(source, i))}
  IN  IF /\ HasPrefixAtCI(source, 1, "#redirect")
         /\ open + 1 <= Len(source)
         /\ SubSeq(source, open, open + 1) = "[["
         /\ ends # {}
      THEN [matched |-> TRUE,
            target |-> SubSeq(source, open + 2,
                              (CHOOSE e \in ends : \A f \in ends : f <= e) - 1)]
      ELSE [matched |-> FALSE, target |-> ""]

(***************************************************************************)
(* Input pages.  A page is what xml-stream hands to the 'endElement: page' *)
(* handler: id is page.id, hasTitle is FALSE when page.title is undefined, *)
(* hasText is FALSE when page.revision or page.revision.text is undefined; *)
(* text is page.revision.text.$text, "" when it is undefined or empty.     *)
(***************************************************************************)
Page(id, title, text) ==
  [id |-> id, hasTitle |-> TRUE, title |-> title, hasText |-> TRUE, text |-> text]

PageTest == Page(1, "test", "Hello")
PageCategory == Page(2, "Category:X", "anything")
PageRedirect == Page(3, "foo", "#REDIRECT [[Bar baz]]")
PageRedirectLower == Page(4, " Foo\n", "#redirect:[[bar]]")
PageBroken == Page(5, "Broken", "{{{")
PageTemplate == Page(6, "Template:X", "Hello")
PageNoTitle == [id |-> 8, hasTitle |-> FALSE, title |-> "", hasText |-> TRUE, text |-> "Hello"]
PageNoText == [id |-> 9, hasTitle |-> TRUE, title |-> "Lost", hasText |-> FALSE, text |-> ""]

Pages == {PageTest, PageCategory, PageRedirect, PageRedirectLower, PageBroken,
          PageTemplate, PageNoTitle, PageNoText}

\* variant: no property access throws
Throws_Never(page) == FALSE

\* page.title.trim() or page.revision.text.$text throws a TypeError
Throws(page) == ~page.hasTitle \/ ~page.hasText

NoPage == [id |-> 0, hasTitle |-> FALSE, title |-> "", hasText |-> FALSE, text |-> ""]

\* const kWithSource = argsExtractSwitch(args, '--with-source')
kWithSource == FALSE

(***************************************************************************)
(* The external parser.  parser.parse(source) returns an AST or, with      *)
(* returnError: true, an Error value; which sources fail is the parser's   *)
(* business, the model fixes one failing source.  A parse result is a      *)
(* record: error = TRUE for an Error value, else nodes is the AST.         *)
(***************************************************************************)
ParserErrorSources == {"{{{"}

ErrorValue == [error |-> TRUE, nodes |-> <<>>]

\* the array literal []
EmptyArray == [error |-> FALSE, nodes |-> <<>>]

WikiParserParse(source) ==
  IF source \in ParserErrorSources
  THEN ErrorValue
  ELSE [error |-> FALSE, nodes |-> <<source>>]

(***************************************************************************)
(* State.                                                                  *)
(***************************************************************************)
VARIABLES
  kMaxPagesInFlight,  \* const kMaxPagesInFlight, scaled
  kBatchSize,         \* const kBatchSize, scaled
  nRead,              \* let nRead
  nWritten,           \* let nWritten
  batch,              \* let batch: sequence of put operations
  nSentToWorkers,     \* let nSentToWorkers
  paused,             \* the input stream is paused (stream.pause / stream.resume)
  closed,             \* the input stream has emitted 'close'
  chunkLeft,          \* pages of the delivered chunk the XML parser still has to emit
  nExtracted,         \* pages emitted by the XML parser so far
  inbox,              \* per worker: messages sent by the master, not yet handled
  outbox,             \* per worker: replies sent by the worker, not yet handled by the master
  connected,          \* per worker: its IPC channel is open (no process.disconnect yet)
  pending,            \* db.batch calls issued whose callback has not run
  store,              \* the LevelDB database: key -> value
  fatal,              \* "none", or why process.exit(1) was called
  lastPage,           \* page handled by the last step when it was the page handler
  handled,            \* history, per worker: replies the master has handled
  acceptedTitles,     \* history: trimmed titles of the pages counted in nRead
  sentTitles,         \* history: trimmed titles of the pages sent to a worker
  xmlFailed,          \* the XML parser has reported an error (xml 'error' was emitted)
  died                \* the workers whose process has died

vars == <<kMaxPagesInFlight, kBatchSize, nRead, nWritten, batch, nSentToWorkers,
          paused, closed, chunkLeft, nExtracted, inbox, outbox, connected,
          pending, store, fatal, lastPage, handled, acceptedTitles, sentTitles,
                 xmlFailed, died>>

Init ==
  /\ kMaxPagesInFlight \in 1..MaxInFlightBound
  /\ kBatchSize \in 1..MaxBatchBound
  /\ nRead = 0
  /\ nWritten = 0
  /\ batch = <<>>
  /\ nSentToWorkers = 0
  /\ paused = FALSE
  /\ closed = FALSE
  /\ chunkLeft = 0
  /\ nExtracted = 0
  /\ inbox = [w \in Workers |-> <<>>]
  /\ outbox = [w \in Workers |-> <<>>]
  /\ connected = [w \in Workers |-> TRUE]
  /\ pending = <<>>
  /\ store = <<>>
  /\ fatal = "none"
  /\ lastPage = NoPage
  /\ handled = [w \in Workers |-> 0]
  /\ acceptedTitles = {}
  /\ sentTitles = {}
  /\ xmlFailed = FALSE
  /\ died = {}

(***************************************************************************)
(* Helpers of the master.                                                  *)
(***************************************************************************)
\* variant of write: the batch is issued when it has grown past kBatchSize
write_Late(b, issued, key, value) ==
  LET pushed == Append(b, [type |-> "put", key |-> key, value |-> value])
  IN  IF Len(pushed) > kBatchSize
      THEN [batch |-> <<>>, pending |-> Append(issued, pushed)]
      ELSE [batch |-> pushed, pending |-> issued]

\* write({key, value}): batch.push, and when the batch is full splice it out
\* and issue db.batch for it.  The result is the new batch and the new list
\* of issued writes.
write(b, issued, key, value) ==
  LET pushed == Append(b, [type |-> "put", key |-> key, value |-> value])
  IN  IF Len(pushed) >= kBatchSize
      THEN [batch |-> <<>>, pending |-> Append(issued, pushed)]
      ELSE [batch |-> pushed, pending |-> issued]

\* variant: the redirect target is stored as captured
RedirectValue_RawTarget(id, title, target, source) ==
  IF kWithSource
  THEN [id |-> id, title |-> title, redirectTo |-> target, source |-> source]
  ELSE [id |-> id, title |-> title, redirectTo |-> target]

\* JSON.stringify({id, title, redirectTo, ...source})
RedirectValue(id, title, target, source) ==
  IF kWithSource
  THEN [id |-> id, title |-> title, redirectTo |-> capitalizeFirst(target), source |-> source]
  ELSE [id |-> id, title |-> title, redirectTo |-> capitalizeFirst(target)]

\* JSON.stringify(page) of the worker; parseTime and backtrackingCount are
\* diagnostics of the parser run and carry no state of the pipeline
PageValue(id, title, ast, source) ==
  IF kWithSource
  THEN [id |-> id, title |-> title, ast |-> ast, source |-> source]
  ELSE [id |-> id, title |-> title, ast |-> ast]

\* variant: every request goes to workers[0]
TargetWorker_First(n) == 1

\* workers[nSentToWorkers % workers.length]
TargetWorker(n) == (n % kWorkerCount) + 1

\* variant: > in place of >=
ShouldPause_Strict(read, written) == read > written + kMaxPagesInFlight

\* ++nRead >= nWritten + kMaxPagesInFlight
ShouldPause(read, written) == read >= written + kMaxPagesInFlight

\* variant: + in place of - in the comparison
ShouldResume_WrongSign(read, written) == written >= read + kMaxPagesInFlight

\* (nWritten += currentBatch.length) >= nRead - kMaxPagesInFlight
ShouldResume(read, written) == written >= read - kMaxPagesInFlight

ParseRequest(id, title, source) ==
  [command |-> "undefined", id |-> id, title |-> title, source |-> source]

DisconnectCommand == [command |-> "disconnect", id |-> 0, title |-> "", source |-> ""]

\* the puts of one batch applied to the database in order
RECURSIVE ApplyBatch(_, _)
ApplyBatch(db, ops) ==
  IF ops = <<>> THEN db
  ELSE LET op == Head(ops)
       IN  ApplyBatch([k \in DOMAIN db \cup {op.key} |->
                         IF k = op.key THEN op.value ELSE db[k]],
                      Tail(ops))

\* variant: the issued write stays in the list after its callback
RemoveAt_None(seq, i) == seq

RemoveAt(seq, i) == SubSeq(seq, 1, i - 1) \o SubSeq(seq, i + 1, Len(seq))

(***************************************************************************)
(* The master.  Its handlers run to completion: while the XML parser is    *)
(* still emitting the pages of a delivered chunk (chunkLeft > 0) no other  *)
(* handler of the master runs.  stream.pause() stops the delivery of       *)
(* further chunks, not the pages of the chunk being parsed.                *)
(***************************************************************************)
MasterIdle == fatal = "none" /\ chunkLeft = 0

\* stream 'data': a chunk holding n complete pages reaches the XML parser
StreamData ==
  /\ MasterIdle
  /\ ~paused
  /\ ~closed
  /\ ~xmlFailed
  /\ \E n \in 1..MaxChunkPages :
       /\ nExtracted + n <= MaxPages
       /\ chunkLeft' = n
  /\ lastPage' = NoPage
  /\ UNCHANGED <<kMaxPagesInFlight, kBatchSize, nRead, nWritten, batch,
                 nSentToWorkers, paused, closed, nExtracted, inbox, outbox,
                 connected, pending, store, fatal, handled, acceptedTitles, sentTitles,
                 xmlFailed, died>>

\* the body of the try block for a page that has a title and a text
\* what the page handler computes from a page, tabulated over Pages:
\* title = page.title.trim(), the test of the namespace pattern on it, the
\* match of the redirect pattern on the source, and the key and value of the
\* redirect put
Extracted ==
  [page \in Pages |->
     LET title == trim(page.title)
         redirectMatch == RedirectMatch(page.text)
     IN  [title |-> title,
          excluded |-> NamespaceRegExpTest(title),
          redirectMatch |-> redirectMatch,
          key |-> capitalizeFirst(title),
          redirectValue |-> RedirectValue(page.id, title, redirectMatch.target,
                                          page.text)]]

\* worker.send(...) to a worker whose process has died: the IPC channel is
\* closed, the send fails with an 'error' event nobody listens to, and the
\* master terminates on it
SendFails(w) == w \in died

\* the handler for this page sends a parse request to a dead worker
DispatchFails(page) ==
  /\ ~Extracted[page].excluded
  /\ ~Extracted[page].redirectMatch.matched
  /\ SendFails(TargetWorker(nSentToWorkers))

HandlePage(page) ==
  LET id == page.id
      title == Extracted[page].title
      source == page.text
      redirectMatch == Extracted[page].redirectMatch
      written == write(batch, pending, Extracted[page].key,
                       Extracted[page].redirectValue)
      w == TargetWorker(nSentToWorkers)
  IN  IF ~Extracted[page].excluded
      THEN /\ IF redirectMatch.matched
              THEN /\ batch' = written.batch
                   /\ pending' = written.pending
                   /\ UNCHANGED <<inbox, nSentToWorkers, sentTitles>>
              ELSE /\ inbox' = [inbox EXCEPT ![w] = Append(@, ParseRequest(id, title, source))]
                   /\ nSentToWorkers' = nSentToWorkers + 1
                   /\ sentTitles' = sentTitles \cup {title}
                   /\ UNCHANGED <<batch, pending>>
           /\ nRead' = nRead + 1
           /\ paused' = (paused \/ ShouldPause(nRead + 1, nWritten))
           /\ acceptedTitles' = acceptedTitles \cup {title}
      ELSE UNCHANGED <<batch, pending, inbox, nSentToWorkers, sentTitles,
                       nRead, paused, acceptedTitles>>

\* xml 'endElement: page'
EndElementPage ==
  /\ fatal = "none"
  /\ chunkLeft > 0
  /\ \E page \in Pages :
       /\ lastPage' = page
       /\ IF ~Throws(page)
          THEN /\ HandlePage(page)
               /\ fatal' = IF DispatchFails(page) THEN "send" ELSE fatal
          ELSE \* catch (err): console.error(title, err); process.exit(1)
               /\ fatal' = "record"
               /\ UNCHANGED <<batch, pending, inbox, nSentToWorkers, sentTitles,
                              nRead, paused, acceptedTitles>>
  /\ nExtracted' = nExtracted + 1
  /\ chunkLeft' = chunkLeft - 1
  /\ UNCHANGED <<kMaxPagesInFlight, kBatchSize, nWritten, closed, outbox,
                 connected, store, handled, xmlFailed, died>>

\* variant: only workers[0] is sent the disconnect command
StreamClose_FirstWorkerOnly ==
  /\ MasterIdle
  /\ ~paused
  /\ ~closed
  /\ closed' = TRUE
  /\ inbox' = [inbox EXCEPT ![1] = Append(@, DisconnectCommand)]
  /\ lastPage' = NoPage
  /\ fatal' = IF \E w \in Workers : SendFails(w) THEN "send" ELSE fatal
  /\ UNCHANGED <<kMaxPagesInFlight, kBatchSize, nRead, nWritten, batch,
                 nSentToWorkers, paused, chunkLeft, nExtracted, outbox,
                 connected, pending, store, handled, acceptedTitles, sentTitles,
                 xmlFailed, died>>

\* stream 'close': the stream is flowing and its input is exhausted
StreamClose ==
  /\ MasterIdle
  /\ ~paused
  /\ ~closed
  /\ closed' = TRUE
  /\ inbox' = [w \in Workers |-> Append(inbox[w], DisconnectCommand)]
  /\ lastPage' = NoPage
  /\ fatal' = IF \E w \in Workers : SendFails(w) THEN "send" ELSE fatal
  /\ UNCHANGED <<kMaxPagesInFlight, kBatchSize, nRead, nWritten, batch,
                 nSentToWorkers, paused, chunkLeft, nExtracted, outbox,
                 connected, pending, store, handled, acceptedTitles, sentTitles,
                 xmlFailed, died>>

\* worker.on('message', write): the master handles one reply of worker w
WorkerReply(w) ==
  /\ MasterIdle
  /\ outbox[w] # <<>>
  /\ LET reply == Head(outbox[w])
         written == write(batch, pending, reply.key, reply.value)
     IN  /\ batch' = written.batch
         /\ pending' = written.pending
  /\ outbox' = [outbox EXCEPT ![w] = Tail(@)]
  /\ handled' = [handled EXCEPT ![w] = @ + 1]
  /\ lastPage' = NoPage
  /\ UNCHANGED <<kMaxPagesInFlight, kBatchSize, nRead, nWritten,
                 nSentToWorkers, paused, closed, chunkLeft, nExtracted, inbox,
                 connected, store, fatal, acceptedTitles, sentTitles,
                 xmlFailed, died>>

\* variant: nWritten counts one per completed write
FlushedCount_One(currentBatch) == 1

\* currentBatch.length, the amount added to nWritten
FlushedCount(currentBatch) == Len(currentBatch)

\* variant: the callback does not look at err
BatchCallback_IgnoresError(i, err) ==
  /\ MasterIdle
  /\ i \in 1..Len(pending)
  /\ store' = IF err THEN store ELSE ApplyBatch(store, pending[i])
  /\ nWritten' = nWritten + FlushedCount(pending[i])
  /\ paused' = (paused /\ ~ShouldResume(nRead, nWritten + FlushedCount(pending[i])))
  /\ pending' = RemoveAt(pending, i)
  /\ fatal' = IF err THEN "write" ELSE fatal
  /\ lastPage' = NoPage
  /\ UNCHANGED <<kMaxPagesInFlight, kBatchSize, nRead, batch, nSentToWorkers,
                 closed, chunkLeft, nExtracted, inbox, outbox, connected,
                 handled, acceptedTitles, sentTitles,
                 xmlFailed, died>>

\* the callback of db.batch for the i-th issued write, with or without err
BatchCallback(i, err) ==
  /\ MasterIdle
  /\ i \in 1..Len(pending)
  /\ IF err
     THEN \* console.error(err); process.exit(1)
          /\ fatal' = "write"
          /\ UNCHANGED <<nWritten, paused, store, pending>>
     ELSE /\ store' = ApplyBatch(store, pending[i])
          /\ nWritten' = nWritten + FlushedCount(pending[i])
          /\ paused' = (paused /\ ~ShouldResume(nRead, nWritten + FlushedCount(pending[i])))
          /\ pending' = RemoveAt(pending, i)
          /\ fatal' = fatal
  /\ lastPage' = NoPage
  /\ UNCHANGED <<kMaxPagesInFlight, kBatchSize, nRead, batch, nSentToWorkers,
                 closed, chunkLeft, nExtracted, inbox, outbox, connected,
                 handled, acceptedTitles, sentTitles,
                 xmlFailed, died>>

(***************************************************************************)
(* A worker: process.on('message') for the oldest message of its channel.  *)
(***************************************************************************)
\* variant: the Error value is not replaced by []
WorkerReplyFor_KeepsError(msg) ==
  [key |-> capitalizeFirst(msg.title),
   value |-> PageValue(msg.id, msg.title, WikiParserParse(msg.source), msg.source)]

\* the reply of the worker to a parse request
WorkerReplyFor(msg) ==
  LET parsed == WikiParserParse(msg.source)
      \* if (ast instanceof Error) ast = []
      ast == IF parsed.error THEN EmptyArray ELSE parsed
  IN  [key |-> capitalizeFirst(msg.title),
       value |-> PageValue(msg.id, msg.title, ast, msg.source)]

\* the replies of a worker, tabulated over the parse requests the master
\* can send
Replies ==
  [msg \in {ParseRequest(page.id, Extracted[page].title, page.text) : page \in Pages} |->
     WorkerReplyFor(msg)]

WorkerMessage(w) ==
  /\ fatal = "none"
  /\ connected[w]
  /\ inbox[w] # <<>>
  /\ LET msg == Head(inbox[w])
     IN  IF msg.command = "disconnect"
         THEN /\ connected' = [connected EXCEPT ![w] = FALSE]
              /\ UNCHANGED outbox
         ELSE /\ outbox' = [outbox EXCEPT ![w] = Append(@, Replies[msg])]
              /\ UNCHANGED connected
  /\ inbox' = [inbox EXCEPT ![w] = Tail(@)]
  /\ lastPage' = NoPage
  /\ UNCHANGED <<kMaxPagesInFlight, kBatchSize, nRead, nWritten, batch,
                 nSentToWorkers, paused, closed, chunkLeft, nExtracted,
                 pending, store, fatal, handled, acceptedTitles, sentTitles,
                 xmlFailed, died>>

Next ==
  \/ StreamData
  \/ EndElementPage
  \/ StreamClose
  \/ \E w \in Workers : WorkerReply(w)
  \/ \E i \in 1..Len(pending), err \in BOOLEAN : BatchCallback(i, err)
  \/ \E w \in Workers : WorkerMessage(w)

Spec == Init /\ [][Next]_vars

\* The scheduling the program runs under: the XML parser emits every page of
\* the chunk it was given, every worker handles the messages queued to it,
\* the master handles every reply that has arrived, and every write issued
\* to the database completes; a write may still fail.
Fairness ==
  /\ WF_vars(EndElementPage)
  /\ \A w \in Workers : WF_vars(WorkerMessage(w)) /\ WF_vars(WorkerReply(w))
  /\ WF_vars(\E i \in 1..Len(pending) : BatchCallback(i, FALSE))

LiveSpec == Init /\ [][Next]_vars /\ Fairness

(***************************************************************************)
(* Faults of the environment: a decode error of the input and the death of *)
(* a worker process.  Spec is the program in an environment without them,  *)
(* SpecFaults the program in an environment where they may happen.         *)
(***************************************************************************)
\* xml 'error': console.error('XML parsing failed:', message).  The XML
\* parser stops at its first error: the rest of the chunk and of the input
\* yields no page, while the stream itself keeps flowing to its end.
XmlError ==
  /\ fatal = "none"
  /\ chunkLeft > 0
  /\ ~xmlFailed
  /\ xmlFailed' = TRUE
  /\ chunkLeft' = 0
  /\ lastPage' = NoPage
  /\ UNCHANGED <<kMaxPagesInFlight, kBatchSize, nRead, nWritten, batch,
                 nSentToWorkers, paused, closed, nExtracted, inbox, outbox,
                 connected, pending, store, fatal, handled, acceptedTitles,
                 sentTitles, died>>

\* 'error' of the file or decompression stream: no listener is registered
\* on it, so the event is thrown and terminates the process
StreamError ==
  /\ MasterIdle
  /\ ~closed
  /\ fatal' = "stream"
  /\ lastPage' = NoPage
  /\ UNCHANGED <<kMaxPagesInFlight, kBatchSize, nRead, nWritten, batch,
                 nSentToWorkers, paused, closed, chunkLeft, nExtracted, inbox,
                 outbox, connected, pending, store, handled, acceptedTitles,
                 sentTitles, xmlFailed, died>>

\* the process of worker w dies: the requests queued to it are never served,
\* the replies it had already sent still reach the master.  The master
\* listens for the cluster event 'death', which the cluster module does not
\* emit (a dead worker is reported by 'exit'), so its handler does not run.
WorkerDeath(w) ==
  /\ fatal = "none"
  /\ connected[w]
  /\ connected' = [connected EXCEPT ![w] = FALSE]
  /\ died' = died \cup {w}
  /\ lastPage' = NoPage
  /\ UNCHANGED <<kMaxPagesInFlight, kBatchSize, nRead, nWritten, batch,
                 nSentToWorkers, paused, closed, chunkLeft, nExtracted, inbox,
                 outbox, pending, store, fatal, handled, acceptedTitles,
                 sentTitles, xmlFailed>>

NextFaults ==
  \/ Next
  \/ XmlError
  \/ StreamError
  \/ \E w \in Workers : WorkerDeath(w)

SpecFaults == Init /\ [][NextFaults]_vars

TypeOK ==
  /\ nRead \in 0..MaxPages
  /\ nWritten \in 0..nRead
  /\ Len(batch) < kBatchSize
  /\ fatal \in {"none", "record", "write", "stream", "send"}
  /\ xmlFailed \in BOOLEAN
  /\ died \subseteq Workers

(***************************************************************************)
(* Properties.                                                             *)
(***************************************************************************)
\* requests sent so far to worker w (round robin over nSentToWorkers)
SentTo(w) == Cardinality({k \in 0..(nSentToWorkers - 1) : (k % kWorkerCount) + 1 = w})

\* the stream has closed, no fatal error occurred, and nothing is left to do
Drained ==
  /\ closed
  /\ fatal = "none"
  /\ chunkLeft = 0
  /\ pending = <<>>
  /\ \A w \in Workers : inbox[w] = <<>> /\ outbox[w] = <<>> /\ ~connected[w]

\* C1: once the stream has ended without a fatal error and every worker
\* reply and every issued write has been handled, every accepted page has an
\* entry in the store under capitalizeFirst(title).
C1_AcceptedArePersisted ==
  Drained => \A t \in acceptedTitles : capitalizeFirst(t) \in DOMAIN store

\* C2: in every reachable state nRead - nWritten is at most
\* kMaxPagesInFlight + kBatchSize - 1.
C2_InFlightBound == nRead - nWritten <= kMaxPagesInFlight + kBatchSize - 1

\* a put for this key is buffered in the batch or in an issued write
Buffered(key) ==
  \/ \E i \in 1..Len(batch) : batch[i].key = key
  \/ \E j \in 1..Len(pending) : \E i \in 1..Len(pending[j]) : pending[j][i].key = key

\* a message for this title is queued at a worker or on its way back
InChannel(title) ==
  \E w \in Workers :
    \/ \E i \in 1..Len(inbox[w]) : inbox[w][i].title = title
    \/ \E i \in 1..Len(outbox[w]) : outbox[w][i].value.title = title

NeverProcessed(title) ==
  /\ title \notin sentTitles
  /\ title \notin acceptedTitles
  /\ ~InChannel(title)
  /\ ~Buffered(title)
  /\ title \notin DOMAIN store

\* C3 as stated: a page titled "Category:X" is never sent to a worker and
\* never written to the store.
C3_CategoryNeverProcessed == NeverProcessed("Category:X")

\* C3 amended: a page whose title has an excluded namespace prefix
\* ("Template:X") is never sent to a worker and never written to the store;
\* "Category:" is the namespace exempted from the exclusion, and a page titled
\* "Category:X" is accepted and sent to a worker by its handler.
C3_ExcludedNeverProcessed ==
  /\ NeverProcessed("Template:X")
  /\ lastPage = PageCategory =>
       /\ "Category:X" \in sentTitles
       /\ \E w \in Workers :
            /\ inbox[w] # <<>>
            /\ inbox[w][Len(inbox[w])].title = "Category:X"

C3_Witness ==
  /\ lastPage = PageTemplate
  /\ "Category:X" \in DOMAIN store

\* C4: the handler step for a page of an excluded namespace leaves nRead,
\* nSentToWorkers, the batch, the issued writes and every worker queue
\* unchanged and does not pause the stream.
C4_ExcludedIsDropped ==
  [][lastPage' = PageTemplate =>
       UNCHANGED <<nRead, nSentToWorkers, batch, pending, inbox, outbox, paused>>]_vars

C4_Witness ==
  /\ lastPage = PageTemplate
  /\ nRead > 0
  /\ batch # <<>>
  /\ ~paused

\* the put handed to write() in this step: appended to the batch, or the
\* batch it filled was issued as a write
HandedToWrite(op) ==
  \/ batch' = Append(batch, op) /\ pending' = pending
  \/ batch' = <<>> /\ pending' = Append(pending, Append(batch, op))

RedirectPut(key, title, target) ==
  [type |-> "put", key |-> key,
   value |-> [id |-> lastPage'.id, title |-> title, redirectTo |-> target]]

\* C5: the handler step for an accepted page whose source starts with the
\* redirect marker hands {key: canonical(title), redirectTo: canonical(target)}
\* to write(), advances nRead by one and sends nothing to a worker.
C5_RedirectIsWrittenDirectly ==
  [][/\ lastPage' = PageRedirect => HandedToWrite(RedirectPut("Foo", "foo", "Bar baz"))
     /\ lastPage' = PageRedirectLower => HandedToWrite(RedirectPut("Foo", "Foo", "Bar"))
     /\ lastPage' \in {PageRedirect, PageRedirectLower} =>
          /\ nRead' = nRead + 1
          /\ UNCHANGED <<nSentToWorkers, inbox, outbox, sentTitles>>]_vars

C5_Witness ==
  /\ lastPage = PageRedirectLower
  /\ "Foo" \in DOMAIN store
  /\ store["Foo"].redirectTo = "Bar baz"
  /\ batch # <<>>

\* C6: the step that accepts the page making nRead - nWritten reach
\* kMaxPagesInFlight pauses the stream, and a paused stream is resumed only by
\* a step in which a write completes successfully.
C6_PauseAndResume ==
  [][/\ (nRead' = nRead + 1 /\ nRead' - nWritten' >= kMaxPagesInFlight) => paused'
     /\ (paused /\ ~paused') =>
          /\ nWritten' > nWritten
          /\ fatal' = "none"
          /\ Len(pending') = Len(pending) - 1]_vars

\* maxInFlight = 2, batchSize = 1: the third page was read after the stream
\* had been paused at the second and resumed by the first flush
C6_Witness ==
  /\ kMaxPagesInFlight = 2
  /\ kBatchSize = 1
  /\ nRead = 3
  /\ nWritten = 1
  /\ paused
  /\ chunkLeft = 0
  /\ nExtracted = 3
  /\ lastPage = PageTest

\* worker w handles the oldest message of its channel in this step
WorkerTakes(w) == inbox[w] # <<>> /\ inbox'[w] = Tail(inbox[w])

\* C7: a worker that gets an Error value from the parser still sends exactly
\* one reply for that request, with key capitalizeFirst(title) and an empty
\* AST, stays connected and the run goes on; a worker closes its channel only
\* on the disconnect command, so later requests queued to it are served.
C7_ParseErrorIsRecovered ==
  [][\A w \in Workers :
       /\ (WorkerTakes(w) /\ Head(inbox[w]).source = "{{{") =>
            /\ outbox'[w] = Append(outbox[w],
                 [key |-> "Broken",
                  value |-> [id |-> Head(inbox[w]).id, title |-> "Broken",
                             ast |-> [error |-> FALSE, nodes |-> <<>>]]])
            /\ connected'[w]
            /\ fatal' = "none"
       /\ (connected[w] /\ ~connected'[w]) =>
            /\ WorkerTakes(w)
            /\ Head(inbox[w]).command = "disconnect"]_vars

\* a worker has replied to the broken page with an empty AST and then to a
\* later request, and is still connected
C7_Witness ==
  \E w \in Workers :
    /\ connected[w]
    /\ fatal = "none"
    /\ Len(outbox[w]) = 2
    /\ outbox[w][1].key = "Broken"
    /\ outbox[w][1].value.ast.nodes = <<>>
    /\ outbox[w][2].key = "Test"

\* C8: at the end of the stream every worker is sent the disconnect command
\* behind the requests already queued to it; a worker closes its channel only
\* after it has replied to every request sent to it, and when the run has
\* come to rest without a fatal error the master has handled a reply for
\* every request it sent.
C8_ShutdownServesQueuedRequests ==
  \A w \in Workers :
    /\ (closed /\ connected[w]) =>
         /\ inbox[w] # <<>>
         /\ inbox[w][Len(inbox[w])].command = "disconnect"
    /\ ~connected[w] =>
         /\ closed
         /\ inbox[w] = <<>>
         /\ handled[w] + Len(outbox[w]) = SentTo(w)
    /\ (closed /\ fatal = "none" /\ ~ENABLED Next) =>
         /\ ~connected[w]
         /\ handled[w] = SentTo(w)

C8_Witness ==
  /\ closed
  /\ \A w \in Workers : ~connected[w] /\ handled[w] = SentTo(w)
  /\ handled[1] = 2
  /\ handled[2] = 1
  /\ fatal = "none"

\* C9: the callback of a failed batch write aborts the run: nWritten is not
\* incremented, the stream is not resumed, the batch is not issued again, and
\* after the abort nothing is written any more.
C9_WriteErrorIsFatal ==
  [][/\ (fatal = "none" /\ fatal' = "write") =>
          UNCHANGED <<nWritten, paused, store, pending, batch, nRead>>
     /\ fatal = "write" => UNCHANGED vars]_vars

C9_Witness ==
  /\ fatal = "write"
  /\ paused
  /\ Len(pending) = 2
  /\ nWritten > 0

\* C10 as stated: a malformed page (title or text cannot be read) is skipped
\* and the run does not terminate.
C10_MalformedIsSkipped ==
  lastPage \in {PageNoTitle, PageNoText} => fatal = "none"

\* C10 amended: a malformed page is logged and is fatal: the handler exits
\* the process, nRead is not advanced for it, nothing is dispatched or
\* written for it, and no page that follows it is extracted or processed.
C10_MalformedIsFatal ==
  [][/\ lastPage' \in {PageNoTitle, PageNoText} =>
          /\ fatal' = "record"
          /\ UNCHANGED <<nRead, nSentToWorkers, batch, pending, inbox, store>>
     /\ fatal = "record" => UNCHANGED vars]_vars

C10_Witness ==
  /\ fatal = "record"
  /\ lastPage = PageNoText
  /\ nRead = 1
  /\ chunkLeft > 0

\* C11: after a hard decode failure of the input (a decompression error or
\* an XML decode error) the run is aborted: no further page is sent to a
\* worker and nothing further is written to the store.
C11_DecodeFailureIsFatal ==
  [][(xmlFailed \/ fatal = "stream") => UNCHANGED <<nSentToWorkers, store>>]_vars

\* C12: once a worker process has died the run is aborted: no further page
\* is sent to a worker and nothing further is written to the store.
C12_WorkerDeathIsFatal ==
  [][died # {} => UNCHANGED <<nSentToWorkers, store>>]_vars

\* canonical(title) as the specification defines it: the title with only its
\* first character uppercased
canonical(title) ==
  IF title = "" THEN ""
  ELSE toUpperCase(CharAt(title, 1)) \o SubSeq(title, 2, Len(title))

\* the puts handed to write() that are still buffered, and the replies of
\* the workers on their way to write()
HandedToBatcher ==
  {batch[i] : i \in 1..Len(batch)}
    \cup UNION {{pending[j][i] : i \in 1..Len(pending[j])} : j \in 1..Len(pending)}
    \cup UNION {{outbox[w][i] : i \in 1..Len(outbox[w])} : w \in Workers}

\* C13: every key handed to the batcher, by the redirect branch or by a
\* worker reply, is canonical(title) of the title its value carries, and
\* every key k of the store is canonical(title) of its entry and satisfies
\* canonical(k) = k.
C13_KeysAreCanonical ==
  /\ \A op \in HandedToBatcher : op.key = canonical(op.value.title)
  /\ \A k \in DOMAIN store :
       /\ k = canonical(store[k].title)
       /\ canonical(k) = k

\* the store holds a redirect and a parsed page whose titles began with a
\* lower-case letter, under their capitalised keys
C13_Witness ==
  /\ "Foo" \in DOMAIN store
  /\ store["Foo"].title = "foo"
  /\ "redirectTo" \in DOMAIN store["Foo"]
  /\ "Test" \in DOMAIN store
  /\ store["Test"].title = "test"
  /\ "ast" \in DOMAIN store["Test"]

\* C14: in every reachable state nRead - nWritten is at most
\* kMaxPagesInFlight.
C14_FlowStateInvariant == nRead - nWritten <= kMaxPagesInFlight

\* C15: a step that resumes the stream leaves nRead - nWritten strictly
\* below kMaxPagesInFlight; while nRead - nWritten equals or exceeds
\* kMaxPagesInFlight after a flush the stream stays paused.
C15_ResumeOnlyBelowLimit ==
  [][(paused /\ ~paused') => nRead' - nWritten' < kMaxPagesInFlight]_vars

\* the parse requests worker w has been sent: those still queued at it,
\* those it has answered and whose reply is in transit, and those whose
\* reply the master has handled
Received(w) ==
  Cardinality({i \in 1..Len(inbox[w]) : inbox[w][i].command # "disconnect"})
    + Len(outbox[w]) + handled[w]

\* the pages of the model that are accepted and are not redirects
DispatchedPages == {PageTest, PageCategory, PageBroken}

\* C16: the page that finds the send counter at k is sent to worker
\* (k mod kWorkerCount) of the pool and to no other; the counter grows by
\* exactly one with each accepted page that is not a redirect and is changed
\* by no other step (redirects, excluded pages, replies, writes); the numbers
\* of requests sent to any two workers differ by at most one.
C16_RoundRobin ==
  [][/\ lastPage' \in DispatchedPages =>
          /\ nSentToWorkers' = nSentToWorkers + 1
          /\ \A w \in Workers :
               IF w = (nSentToWorkers % kWorkerCount) + 1
               THEN /\ Len(inbox'[w]) = Len(inbox[w]) + 1
                    /\ inbox'[w][Len(inbox'[w])].id = lastPage'.id
                    /\ inbox'[w][Len(inbox'[w])].command # "disconnect"
               ELSE inbox'[w] = inbox[w]
     /\ lastPage' \notin DispatchedPages => nSentToWorkers' = nSentToWorkers
     /\ \A w \in Workers :
          Received(w)' = Cardinality({k \in 0..(nSentToWorkers' - 1) :
                                        (k % kWorkerCount) + 1 = w})
     /\ \A v, w \in Workers :
          Received(v)' - Received(w)' \in {-1, 0, 1}]_vars

\* three pages were accepted, one of them the redirect "foo": the two others
\* went to the two workers, one each
C16_Witness ==
  /\ nRead = 3
  /\ nSentToWorkers = 2
  /\ "Foo" \in {batch[i].key : i \in 1..Len(batch)} \cup DOMAIN store
  /\ Received(1) = 1
  /\ Received(2) = 1

\* the step calls write(): the handler of a redirect page, or the master's
\* handler of a worker reply
CallsWrite ==
  \/ lastPage' \in {PageRedirect, PageRedirectLower}
  \/ handled' # handled

\* C17: a call of write() appends its put to the batch; when this makes the
\* batch reach kBatchSize the batch, in arrival order, is issued as one
\* write and the batch is empty after the step, otherwise no write is
\* issued; no other step issues a write or touches the batch; every issued
\* write has exactly kBatchSize entries and the batch is always shorter than
\* kBatchSize.
C17_BatchIsWrittenWhenFull ==
  [][/\ CallsWrite =>
          IF Len(batch) + 1 = kBatchSize
          THEN /\ batch' = <<>>
               /\ Len(pending') = Len(pending) + 1
               /\ SubSeq(pending', 1, Len(pending)) = pending
               /\ SubSeq(pending'[Len(pending')], 1, Len(batch)) = batch
               /\ Len(pending'[Len(pending')]) = kBatchSize
          ELSE /\ pending' = pending
               /\ Len(batch') = Len(batch) + 1
               /\ SubSeq(batch', 1, Len(batch)) = batch
     /\ ~CallsWrite => batch' = batch /\ Len(pending') <= Len(pending)
     /\ Len(batch') < kBatchSize
     /\ \A j \in 1..Len(pending') : Len(pending'[j]) = kBatchSize]_vars

\* with kBatchSize = 2 a write of two puts, a redirect first and a parsed
\* page second, has been issued and the next put is already in the batch
C17_Witness ==
  /\ kBatchSize = 2
  /\ Len(pending) = 1
  /\ "redirectTo" \in DOMAIN pending[1][1].value
  /\ "ast" \in DOMAIN pending[1][2].value
  /\ Len(batch) = 1

\* the parse requests queued at the workers or being parsed by them
QueuedRequests ==
  Cardinality({<<w, i>> \in Workers \X (1..MaxPages) :
                 /\ i <= Len(inbox[w])
                 /\ inbox[w][i].command # "disconnect"})

\* the replies of the workers in transit to the master
RepliesInTransit ==
  Cardinality({<<w, i>> \in Workers \X (1..MaxPages) : i <= Len(outbox[w])})

\* the puts of the writes issued to the database and not yet completed
RECURSIVE PutsIn(_)
PutsIn(writes) ==
  IF writes = <<>> THEN 0 ELSE Len(Head(writes)) + PutsIn(Tail(writes))

\* C18: in every state without a fatal error nRead - nWritten is the number
\* of requests queued at the workers, plus the replies in transit to the
\* master, plus the length of the batch, plus the sizes of the writes issued
\* and not yet completed.
C18_Conservation ==
  fatal = "none" =>
    nRead - nWritten = QueuedRequests + RepliesInTransit + Len(batch) + PutsIn(pending)

\* three pages accepted: one is written, one is in an issued write and one
\* is at a worker or on its way back
C18_Witness ==
  /\ fatal = "none"
  /\ nRead = 3
  /\ nWritten = 1
  /\ PutsIn(pending) = 1
  /\ QueuedRequests + RepliesInTransit = 1

\* C19: no step decreases nRead or nWritten; nRead is changed only by the
\* handler of a page, by one; nWritten is changed only by the callback of a
\* write that succeeded, by the size of that write; and always
\* 0 <= nWritten <= nRead with nWritten a multiple of kBatchSize.
C19_CountersAreMonotonic ==
  [][/\ nRead' >= nRead
     /\ nWritten' >= nWritten
     /\ nRead' # nRead => lastPage' \in Pages /\ nRead' = nRead + 1
     /\ nWritten' # nWritten =>
          /\ Len(pending') = Len(pending) - 1
          /\ fatal' = "none"
          /\ nWritten' = nWritten + kBatchSize
     /\ 0 <= nWritten'
     /\ nWritten' <= nRead'
     /\ nWritten' % kBatchSize = 0]_vars

\* with kBatchSize = 2 three pages were accepted and one write of two puts
\* has completed
C19_Witness ==
  /\ kBatchSize = 2
  /\ nRead = 3
  /\ nWritten = 2
  /\ DOMAIN store # {}

\* C20: for every kMaxPagesInFlight and kBatchSize, once the stream is
\* paused it is eventually resumed, unless the run ends in a fatal error.
C20_PausedIsEventuallyResumed ==
  paused ~> (~paused \/ fatal # "none")

\* C20 as the program's constants allow it: when kMaxPagesInFlight is at
\* least kBatchSize, a paused stream is eventually resumed, unless the run
\* ends in a fatal error.
C20_PausedIsResumedWhenBatchFits ==
  (paused /\ kMaxPagesInFlight >= kBatchSize) ~> (~paused \/ fatal # "none")

\* with kMaxPagesInFlight = kBatchSize = 2 the stream, paused at the second
\* accepted page, is flowing again after the write of the first batch
C20_Witness ==
  /\ kMaxPagesInFlight = 2
  /\ kBatchSize = 2
  /\ nRead = 2
  /\ nWritten = 2
  /\ ~paused
  /\ fatal = "none"

====
